---- MODULE Spec2Model ----
(***************************************************************************)
(* kubectl-kruise: the 'set resources' command                             *)
(* (pkg/cmd/set/set_resources.go, SetResourcesOptions Complete / Validate  *)
(* / Run, driven by the cobra Run closure of NewCmdResources) and the      *)
(* rollout approver (polymorphichelpers.defaultObjectApprover).            *)
(*                                                                         *)
(* Two specifications share the module:                                    *)
(*   Spec         one invocation of 'set resources'                        *)
(*   SpecApprove  defaultObjectApprover applied to an object, repeatedly   *)
(***************************************************************************)
EXTENDS Integers, Sequences, FiniteSets, TLC

(***************************************************************************)
(* Bounds of the model.                                                    *)
(***************************************************************************)
\* most objects the resource builder resolves into o.Infos
MaxInfos == 2
\* most calls of defaultObjectApprover on one object
MaxApprovals == 3
\* largest Status.CanaryStatus.CurrentStepIndex of a Rollout
MaxStepIndex == 3

(***************************************************************************)
(* Values.                                                                 *)
(***************************************************************************)
\* A corev1.ResourceList is a map from resource name to quantity: here a
\* function whose domain is the set of names that have an entry.  A nil map
\* and an empty map both have length 0 and are both the empty function.
EmptyList == [r \in {} |-> 0]

ResourceNames == {"cpu", "memory"}

\* b overrides a, key by key (Go: for key, value := range b { a[key] = value })
Merge(a, b) ==
    [r \in (DOMAIN a) \cup (DOMAIN b) |-> IF r \in DOMAIN b THEN b[r] ELSE a[r]]

NoResources == [Limits |-> EmptyList, Requests |-> EmptyList]

Container(name, limits, requests) ==
    [name |-> name, Limits |-> limits, Requests |-> requests]

\* the pod templates the server can hold for an object: one container
\* without resources, or a container that already has a cpu limit and
\* request next to a sidecar that has none
ContainerLists ==
    { << Container("nginx", EmptyList, EmptyList) >>,
      << Container("nginx", [r \in {"cpu"} |-> 1], [r \in {"cpu"} |-> 1]),
         Container("sidecar", EmptyList, EmptyList) >> }

\* the kinds whose pod template UpdatePodSpecForObject can reach
PodTemplateKinds == {"CloneSet", "StatefulSet", "Deployment"}

\* a resolved object (resource.Info with its Object): its kind, its name and
\* the containers of its pod template; a Service has no pod template
Object(kind, name, containers) ==
    [kind |-> kind, name |-> name, containers |-> containers]

\* the pod template of a resolved object: nginx has a cpu limit and a zero
\* cpu request, the sidecar has no resources
FullTemplate ==
    << Container("nginx", [r \in {"cpu"} |-> 1], [r \in {"cpu"} |-> 0]),
       Container("sidecar", EmptyList, EmptyList) >>

\* the objects the builder can resolve at position i of o.Infos
ObjectInputs(i) ==
    { Object(k, i, FullTemplate) : k \in PodTemplateKinds } \cup
    { Object("Service", i, << >>) }

RECURSIVE InfosOfLen(_)
InfosOfLen(n) ==
    IF n = 0 THEN { << >> }
    ELSE { Append(infos, o) : infos \in InfosOfLen(n - 1), o \in ObjectInputs(n) }

\* what builder.Do().Infos() can return
InfosInputs == UNION { InfosOfLen(n) : n \in 0..MaxInfos }

\* the positional arguments of the command
ArgsInputs == { << >>, << "cloneset/sample" >> }

\* a --limits / --requests value, already split at "," and "=": a sequence
\* of statements, each the sequence of its parts.  <<"cpu", 2>> is "cpu=2";
\* <<"cpu">> is a statement without "=".  << >> is the empty string.
LimitsInputs ==
    { << >>,
      << <<"cpu", 0>> >>,
      << <<"cpu", 2>>, <<"memory", 1>> >>,
      << <<"cpu">> >> }

RequestsInputs ==
    { << >>,
      << <<"cpu", 0>> >>,
      << <<"memory">> >> }

DryRunStrategies == {"DryRunNone", "DryRunClient", "DryRunServer"}

ContainerSelectorInputs == {"*", "nginx", "missing"}

VARIABLES
    pc,                   \* where the Run closure of the command stands
    err,                  \* the error handed to CheckErr, << >> when nil
    Local, DryRunStrategy, All, Selector, ContainerSelector,
    Limits, Requests,     \* o.Limits, o.Requests: the flag values
    ResourceRequirements, \* o.ResourceRequirements
    Infos,                \* o.Infos
    transformed,          \* the objects Run has updated, in order
    calls,                \* the requests Run has sent to the API server
    printed,              \* the objects handed to o.PrintObj
    obj,                  \* the runtime.Object given to the approver
    results               \* what each call of the approver returned

cmdVars == << pc, err, Local, DryRunStrategy, All, Selector,
              ContainerSelector, Limits, Requests, ResourceRequirements,
              Infos, transformed, calls, printed >>
approveVars == << obj, results >>
vars == << pc, err, Local, DryRunStrategy, All, Selector,
           ContainerSelector, Limits, Requests, ResourceRequirements,
           Infos, transformed, calls, printed, obj, results >>

(***************************************************************************)
(* The command: Complete, Validate, Run.                                   *)
(***************************************************************************)
\* populateResourceListV1 of kubectl's generate/versioned package, called
\* through HandleResourceRequirementsV1: the empty string gives a nil list;
\* otherwise every statement must have exactly two parts, and a later
\* statement for a resource overrides an earlier one.
RECURSIVE populateFrom(_, _, _)
populateFrom(spec, i, acc) ==
    IF i > Len(spec)
    THEN [list |-> acc, err |-> << >>]
    ELSE IF Len(spec[i]) # 2
         THEN [list |-> EmptyList, err |-> << "invalid argument syntax" >>]
         ELSE populateFrom(spec, i + 1,
                           Merge(acc, [r \in {spec[i][1]} |-> spec[i][2]]))

populateResourceListV1(spec) ==
    IF Len(spec) = 0
    THEN [list |-> EmptyList, err |-> << >>]
    ELSE populateFrom(spec, 1, EmptyList)

\* HandleResourceRequirementsV1(map{"limits": limits, "requests": requests}):
\* the limits are parsed first and stay in the result when the requests fail
\* to parse; nothing defaults a request to a limit.
HandleResourceRequirementsV1(limits, requests) ==
    LET l == populateResourceListV1(limits)
        r == populateResourceListV1(requests)
    IN  IF l.err # << >>
        THEN [value |-> NoResources, err |-> l.err]
        ELSE IF r.err # << >>
             THEN [value |-> [Limits |-> l.list, Requests |-> EmptyList],
                   err |-> r.err]
             ELSE [value |-> [Limits |-> l.list, Requests |-> r.list],
                   err |-> << >>]

\* the options Validate reads
Options ==
    [Local |-> Local, DryRunStrategy |-> DryRunStrategy, All |-> All,
     Selector |-> Selector, Limits |-> Limits, Requests |-> Requests,
     ResourceRequirements |-> ResourceRequirements]

\* a plausible slip: the --all / --selector check is left out
ValidateOptions_NoAllSelectorCheck(o) ==
    IF o.Local /\ o.DryRunStrategy = "DryRunServer"
    THEN [err |-> << "cannot specify --local and --dry-run=server" >>,
          ResourceRequirements |-> o.ResourceRequirements]
    ELSE IF Len(o.Limits) = 0 /\ Len(o.Requests) = 0
    THEN [err |-> << "you must specify an update to requests or limits" >>,
          ResourceRequirements |-> o.ResourceRequirements]
    ELSE LET h == HandleResourceRequirementsV1(o.Limits, o.Requests)
         IN  [err |-> h.err, ResourceRequirements |-> h.value]

\* SetResourcesOptions.Validate: the error it returns and the value
\* o.ResourceRequirements has when it returns
ValidateOptions(o) ==
    IF o.Local /\ o.DryRunStrategy = "DryRunServer"
    THEN [err |-> << "cannot specify --local and --dry-run=server" >>,
          ResourceRequirements |-> o.ResourceRequirements]
    ELSE IF o.All /\ Len(o.Selector) > 0
    THEN [err |-> << "cannot set --all and --selector at the same time" >>,
          ResourceRequirements |-> o.ResourceRequirements]
    ELSE IF Len(o.Limits) = 0 /\ Len(o.Requests) = 0
    THEN [err |-> << "you must specify an update to requests or limits" >>,
          ResourceRequirements |-> o.ResourceRequirements]
    ELSE LET h == HandleResourceRequirementsV1(o.Limits, o.Requests)
         IN  [err |-> h.err, ResourceRequirements |-> h.value]

\* the state after NewResourcesOptions and flag parsing, before the Run
\* closure starts
InitCmd ==
    /\ pc = "start"
    /\ err = << >>
    /\ Local \in BOOLEAN
    /\ DryRunStrategy \in DryRunStrategies
    /\ All \in BOOLEAN
    /\ Selector \in { << >>, << "app=nginx" >> }
    /\ ContainerSelector \in ContainerSelectorInputs
    /\ Limits \in LimitsInputs
    /\ Requests \in RequestsInputs
    /\ ResourceRequirements = NoResources
    /\ Infos = << >>
    /\ transformed = << >>
    /\ calls = << >>
    /\ printed = << >>

\* SetResourcesOptions.Complete: with --local any positional argument is an
\* error; otherwise the builder resolves the objects, or fails
Complete ==
    /\ pc = "start"
    /\ \E args \in ArgsInputs :
         IF Local /\ Len(args) > 0
         THEN /\ pc' = "failed"
              /\ err' = << "LocalResourceError" >>
              /\ UNCHANGED Infos
         ELSE \/ /\ pc' = "failed"
                 /\ err' = << "builder error" >>
                 /\ UNCHANGED Infos
              \/ \E infos \in InfosInputs :
                   /\ Infos' = infos
                   /\ pc' = "completed"
                   /\ UNCHANGED err
    /\ UNCHANGED << Local, DryRunStrategy, All, Selector,
                    ContainerSelector, Limits, Requests, ResourceRequirements,
                    transformed, calls, printed >>
    /\ UNCHANGED approveVars

\* SetResourcesOptions.Validate, and CheckErr on what it returns
Validate ==
    /\ pc = "completed"
    /\ LET v == ValidateOptions(Options)
       IN  /\ ResourceRequirements' = v.ResourceRequirements
           /\ err' = v.err
           /\ pc' = IF v.err = << >> THEN "validated" ELSE "failed"
    /\ UNCHANGED << Local, DryRunStrategy, All, Selector,
                    ContainerSelector, Limits, Requests, Infos,
                    transformed, calls, printed >>
    /\ UNCHANGED approveVars

\* selectContainers (helper.go): the indices of the containers whose name
\* matches the selector; "*" matches every name
selectContainers(containers, spec) ==
    { i \in 1..Len(containers) : spec = "*" \/ containers[i].name = spec }

\* the body of the loop over the selected containers: every parsed limit and
\* request is written over the container's entry for that resource.  (The
\* make() of a list of length 0 replaces an empty list by an empty list.)
UpdateContainer(c) ==
    LET limits0 == IF Len(Limits) # 0 /\ DOMAIN c.Limits = {}
                   THEN EmptyList ELSE c.Limits
        requests0 == IF Len(Requests) # 0 /\ DOMAIN c.Requests = {}
                     THEN EmptyList ELSE c.Requests
    IN  [c EXCEPT !.Limits = Merge(limits0, ResourceRequirements.Limits),
                  !.Requests = Merge(requests0, ResourceRequirements.Requests)]

UpdateContainers(containers, sel) ==
    [i \in 1..Len(containers) |->
        IF i \in sel THEN UpdateContainer(containers[i]) ELSE containers[i]]

\* runtime.Encode of an object with a pod template: its kind, its name and
\* one entry per container, list and resource
Encode(o) ==
    [kind |-> o.kind, name |-> o.name,
     entries |->
        UNION { { << o.containers[i].name, "limits", r, o.containers[i].Limits[r] >> :
                    r \in DOMAIN o.containers[i].Limits } \cup
                { << o.containers[i].name, "requests", r, o.containers[i].Requests[r] >> :
                    r \in DOMAIN o.containers[i].Requests } :
                i \in 1..Len(o.containers) }]

\* CalculatePatch (helper.go): the merge patch from before to after, the
\* entries of after that before does not have; {} when nothing changed
CalculatePatch(before, after) == after.entries \ before.entries

\* the function Run hands to CalculatePatches, applied to one object:
\* UpdatePodSpecForObject fails on an object without pod template; an object
\* with no matching container is left alone and adds to allErrs
MutateFn(o) ==
    LET sel == selectContainers(o.containers, ContainerSelector)
        res == [o EXCEPT !.containers = UpdateContainers(o.containers, sel)]
    IN  IF o.kind \notin PodTemplateKinds
        THEN [Object |-> o, After |-> << >>,
              Err |-> << "the object is not a pod or does not have a pod template" >>,
              allErrs |-> << >>]
        ELSE IF sel = {}
        THEN [Object |-> o, After |-> << >>, Err |-> << >>,
              allErrs |-> << "unable to find container" >>]
        ELSE [Object |-> res, After |-> << Encode(res) >>, Err |-> << >>,
              allErrs |-> << >>]

\* CalculatePatches (helper.go), one record per object of infos: the object
\* as mutated in place, the patch, the error, and whether a patch record was
\* appended at all (none is when the function returned nil, nil)
CalculatePatches(infos) ==
    [i \in 1..Len(infos) |->
        LET m == MutateFn(infos[i])
        IN  [Object |-> m.Object,
             Err |-> m.Err,
             allErrs |-> m.allErrs,
             appended |-> m.Err # << >> \/ m.After # << >>,
             Patch |-> IF m.After = << >> THEN {}
                       ELSE CalculatePatch(Encode(infos[i]), m.After[1])]]

Call(op, name, dryRun) == [op |-> op, name |-> name, dryRun |-> dryRun]

\* the loop over the patches in the default branch of Run, from patch i on;
\* acc collects allErrs, the requests sent and the objects printed.
\* noSupport: DryRunVerifier.HasSupport fails; failing: the objects whose
\* Patch request the server rejects.
RECURSIVE PatchLoop(_, _, _, _, _)
PatchLoop(patches, i, acc, noSupport, failing) ==
    IF i > Len(patches) THEN acc
    ELSE
      LET p == patches[i]
          name == p.Object.name
          next ==
            IF ~p.appended THEN acc
            ELSE IF p.Err # << >>
            THEN [acc EXCEPT !.allErrs = @ \o p.Err]
            ELSE IF p.Patch = {}
            THEN acc
            ELSE IF Local \/ DryRunStrategy = "DryRunClient"
            THEN [acc EXCEPT !.printed = Append(@, p.Object)]
            ELSE IF DryRunStrategy = "DryRunServer" /\ noSupport
            THEN [acc EXCEPT !.allErrs = Append(@, "failed to patch")]
            ELSE IF i \in failing
            THEN [acc EXCEPT
                    !.calls = Append(@, Call("Patch", name,
                                             DryRunStrategy = "DryRunServer")),
                    !.allErrs = Append(@, "failed to patch")]
            ELSE [acc EXCEPT
                    !.calls = Append(@, Call("Patch", name,
                                             DryRunStrategy = "DryRunServer")),
                    !.printed = Append(@, p.Object)]
      IN  PatchLoop(patches, i + 1, next, noSupport, failing)

RECURSIVE Concat(_, _)
Concat(seqs, i) ==
    IF i > Len(seqs) THEN << >> ELSE seqs[i] \o Concat(seqs, i + 1)

\* the kinds the type switch of Run treats by Get / Replace of Infos[0]
TypedKinds == {"CloneSet", "StatefulSet"}

\* the CloneSet and StatefulSet branches of Run, which are the same code:
\* Get Infos[0] from the server, update the containers of what came back,
\* Replace it unless --local, print it.  Nothing after Infos[0] is read.
RunTyped ==
    /\ pc = "validated"
    /\ Len(Infos) > 0
    /\ Infos[1].kind \in TypedKinds
    /\ \E getFails \in BOOLEAN, replaceFails \in BOOLEAN,
          served \in ContainerLists :
         LET get == Call("Get", Infos[1].name, FALSE)
             res == Object(Infos[1].kind, Infos[1].name, served)
             sel == selectContainers(res.containers, ContainerSelector)
             upd == [res EXCEPT !.containers = UpdateContainers(@, sel)]
         IN  IF getFails
             THEN /\ calls' = << get >>
                  /\ pc' = "failed"
                  /\ err' = << "get failed" >>
                  /\ UNCHANGED << transformed, printed >>
             ELSE IF sel = {}
             THEN /\ calls' = << get >>
                  /\ pc' = "done"
                  /\ UNCHANGED << err, transformed, printed >>
             ELSE IF ~Local /\ replaceFails
             THEN /\ calls' = << get, Call("Replace", Infos[1].name, FALSE) >>
                  /\ transformed' = << upd >>
                  /\ pc' = "failed"
                  /\ err' = << "replace failed" >>
                  /\ UNCHANGED printed
             ELSE /\ calls' = IF Local THEN << get >>
                              ELSE << get, Call("Replace", Infos[1].name, FALSE) >>
                  /\ transformed' = << upd >>
                  /\ printed' = << upd >>
                  /\ pc' = "done"
                  /\ UNCHANGED err
    /\ UNCHANGED << Local, DryRunStrategy, All, Selector,
                    ContainerSelector, Limits, Requests, ResourceRequirements,
                    Infos >>
    /\ UNCHANGED approveVars

\* the default branch of Run: CalculatePatches over all of Infos, then the
\* loop over the patches
RunDefault ==
    /\ pc = "validated"
    /\ Len(Infos) > 0
    /\ Infos[1].kind \notin TypedKinds
    /\ \E noSupport \in BOOLEAN, failing \in SUBSET (1..Len(Infos)) :
         LET patches == CalculatePatches(Infos)
             errs0 == Concat([i \in 1..Len(patches) |-> patches[i].allErrs], 1)
             out == PatchLoop(patches, 1,
                              [allErrs |-> errs0, calls |-> << >>,
                               printed |-> << >>],
                              noSupport, failing)
             changed == { i \in 1..Len(patches) :
                            patches[i].Err = << >> /\ patches[i].appended }
         IN  /\ Infos' = [i \in 1..Len(Infos) |-> patches[i].Object]
             /\ transformed' =
                  Concat([i \in 1..Len(patches) |->
                            IF i \in changed THEN << patches[i].Object >>
                            ELSE << >>], 1)
             /\ calls' = out.calls
             /\ printed' = out.printed
             /\ err' = out.allErrs
             /\ pc' = IF out.allErrs = << >> THEN "done" ELSE "failed"
    /\ UNCHANGED << Local, DryRunStrategy, All, Selector,
                    ContainerSelector, Limits, Requests, ResourceRequirements >>
    /\ UNCHANGED approveVars

\* Run with nothing resolved returns nil at once
RunEmpty ==
    /\ pc = "validated"
    /\ Len(Infos) = 0
    /\ pc' = "done"
    /\ UNCHANGED << err, Local, DryRunStrategy, All, Selector,
                    ContainerSelector, Limits, Requests, ResourceRequirements,
                    Infos, transformed, calls, printed >>
    /\ UNCHANGED approveVars

\* SetResourcesOptions.Run, and CheckErr on what it returns
Run == RunEmpty \/ RunTyped \/ RunDefault

(***************************************************************************)
(* The rollout approver.                                                   *)
(***************************************************************************)
CanaryStepStatePaused == "StepPaused"
CanaryStepStateCompleted == "Completed"

CanaryStepStates ==
    { "", "StepUpgrade", "StepTrafficRouting", "StepMetricsAnalysis",
      CanaryStepStatePaused, "StepReady", CanaryStepStateCompleted }

\* Status.CanaryStatus is a pointer: << >> is nil, << s >> points to s
CanaryStatusInputs ==
    { << >> } \cup
    { << [CurrentStepIndex |-> n, CurrentStepState |-> st] >> :
        n \in 0..MaxStepIndex, st \in CanaryStepStates }

ApproverInputs ==
    { [kind |-> "Rollout", CanaryStatus |-> cs] : cs \in CanaryStatusInputs } \cup
    { [kind |-> k, CanaryStatus |-> << >>] : k \in {"CloneSet", "Deployment"} }

\* runtime.Encode of a Rollout with the legacy codec of the rollouts group
EncodeRollout(o) ==
    << "rollouts.kruise.io/v1alpha1", o.kind,
       o.CanaryStatus[1].CurrentStepIndex, o.CanaryStatus[1].CurrentStepState >>

\* a plausible slip: any Rollout that has a canary status is approved
defaultObjectApprover_NoPausedCheck(o) ==
    IF o.kind = "Rollout"
    THEN IF o.CanaryStatus = << >>
         THEN [obj |-> o, bytes |-> << >>,
               err |-> << "does not allow to approve" >>]
         ELSE LET res == [o EXCEPT !.CanaryStatus[1].CurrentStepState =
                                      CanaryStepStateCompleted]
              IN  [obj |-> res, bytes |-> EncodeRollout(res), err |-> << >>]
    ELSE [obj |-> o, bytes |-> << >>, err |-> << "approving is not supported" >>]

\* a plausible slip: the step state is written before it is checked
defaultObjectApprover_WriteBeforeCheck(o) ==
    IF o.kind = "Rollout"
    THEN IF o.CanaryStatus = << >>
         THEN [obj |-> o, bytes |-> << >>,
               err |-> << "does not allow to approve" >>]
         ELSE LET res == [o EXCEPT !.CanaryStatus[1].CurrentStepState =
                                      CanaryStepStateCompleted]
              IN  IF o.CanaryStatus[1].CurrentStepState # CanaryStepStatePaused
                  THEN [obj |-> res, bytes |-> << >>,
                        err |-> << "does not allow to approve" >>]
                  ELSE [obj |-> res, bytes |-> EncodeRollout(res), err |-> << >>]
    ELSE [obj |-> o, bytes |-> << >>, err |-> << "approving is not supported" >>]

\* defaultObjectApprover: the object as the call leaves it, the bytes and
\* the error it returns (<< >> is nil)
defaultObjectApprover(o) ==
    IF o.kind = "Rollout"
    THEN IF \/ o.CanaryStatus = << >>
            \/ o.CanaryStatus[1].CurrentStepState # CanaryStepStatePaused
         THEN [obj |-> o, bytes |-> << >>,
               err |-> << "does not allow to approve" >>]
         ELSE LET res == [o EXCEPT !.CanaryStatus[1].CurrentStepState =
                                      CanaryStepStateCompleted]
              IN  [obj |-> res, bytes |-> EncodeRollout(res), err |-> << >>]
    ELSE [obj |-> o, bytes |-> << >>, err |-> << "approving is not supported" >>]

InitApprover ==
    /\ obj \in ApproverInputs
    /\ results = << >>

\* one call of defaultObjectApprover on obj
Approve ==
    /\ Len(results) < MaxApprovals
    /\ LET r == defaultObjectApprover(obj)
       IN  /\ obj' = r.obj
           /\ results' = Append(results, [bytes |-> r.bytes, err |-> r.err])
    /\ UNCHANGED cmdVars

(***************************************************************************)
(* The specifications.                                                     *)
(***************************************************************************)
Init ==
    /\ InitCmd
    /\ obj = [kind |-> "Rollout", CanaryStatus |-> << >>]
    /\ results = << >>

Next == Complete \/ Validate \/ Run

Spec == Init /\ [][Next]_vars

InitApprove ==
    /\ InitApprover
    /\ pc = "start"
    /\ err = << >>
    /\ Local = FALSE
    /\ DryRunStrategy = "DryRunNone"
    /\ All = FALSE
    /\ Selector = << >>
    /\ ContainerSelector = "*"
    /\ Limits = << >>
    /\ Requests = << >>
    /\ ResourceRequirements = NoResources
    /\ Infos = << >>
    /\ transformed = << >>
    /\ calls = << >>
    /\ printed = << >>

NextApprove == Approve

SpecApprove == InitApprove /\ [][NextApprove]_vars

(***************************************************************************)
(* Properties.                                                             *)
(***************************************************************************)
Names(objects) == { objects[i].name : i \in 1..Len(objects) }

\* the containers of the updated objects that the container selector names
SelectedContainers ==
    UNION { { transformed[i].containers[j] :
                j \in selectContainers(transformed[i].containers,
                                       ContainerSelector) } :
            i \in 1..Len(transformed) }

\* C1: with --local, Run sends no request to the API server: no Get, no
\* Replace and no Patch, whatever the kind of the resolved objects.
C1_LocalSendsNoRequest == Local => calls = << >>

\* the last result of the approver in the next state
LastResult == results'[Len(results')]

Approved == Len(results') = Len(results) + 1

C4_RequestDefaultsToLimit ==
    pc = "done" =>
      \A c \in SelectedContainers :
        \A r \in (DOMAIN ResourceRequirements.Limits)
                   \ (DOMAIN ResourceRequirements.Requests) :
          /\ r \in DOMAIN c.Requests
          /\ c.Requests[r] = ResourceRequirements.Limits[r]

\* C5: a value of 0 for a resource in --limits / --requests removes the
\* entry: once Run has returned, no selected container has a limit /
\* request entry for that resource.
C5_ZeroRemovesEntry ==
    pc = "done" =>
      \A c \in SelectedContainers :
        /\ \A r \in DOMAIN ResourceRequirements.Limits :
             ResourceRequirements.Limits[r] = 0 => r \notin DOMAIN c.Limits
        /\ \A r \in DOMAIN ResourceRequirements.Requests :
             ResourceRequirements.Requests[r] = 0 => r \notin DOMAIN c.Requests

\* the flag combinations Validate rejects before it parses anything
RejectedFlags ==
    \/ Local /\ DryRunStrategy = "DryRunServer"
    \/ All /\ Len(Selector) > 0
    \/ Len(Limits) = 0 /\ Len(Requests) = 0

\* C6: with --local and --dry-run=server, or --all and a selector, or
\* neither --limits nor --requests, Validate returns an error and leaves
\* ResourceRequirements as it was, and Run is never reached: the command
\* never gets past Validate and nothing is updated, sent or printed.
C6_ValidateRejects ==
    [][ RejectedFlags =>
          /\ pc = "completed" =>
               /\ pc' = "failed"
               /\ err' # << >>
               /\ ResourceRequirements' = ResourceRequirements
          /\ pc' \notin {"validated", "done"}
          /\ transformed' = << >> /\ calls' = << >> /\ printed' = << >>
      ]_vars

\* C6 witness: Validate has rejected --all together with a selector, with
\* limits given and objects resolved
C6_Witness ==
    /\ pc = "failed"
    /\ err = << "cannot set --all and --selector at the same time" >>
    /\ All /\ Len(Selector) > 0
    /\ Len(Limits) > 0
    /\ Len(Infos) > 0
    /\ ResourceRequirements = NoResources

\* C7: once Run has returned without error, every object of Infos that has
\* a pod template with a matching container has been updated, whatever the
\* kind of Infos[0] and however many objects follow it.
C7_EveryInfoUpdated ==
    pc = "done" =>
      \A i \in 1..Len(Infos) :
        (/\ Infos[i].kind \in PodTemplateKinds
         /\ selectContainers(Infos[i].containers, ContainerSelector) # {})
          => Infos[i].name \in Names(transformed)

====
